---- MODULE Spec2Model ----
(***************************************************************************)
(* Model of the OMR processing REST API (src/api_server.py).               *)
(*                                                                         *)
(* Spec       the two recognition endpoints, /api/process (process_omr)    *)
(*            and /api/batch (batch_process), run by concurrent requests   *)
(*            that share the module-level processor and the upload folder. *)
(* SpecScore  the scoring endpoint /api/validate (validate_answers) on     *)
(*            bounded detected maps and answer keys.                       *)
(* SpecGrade  the percentage and grade computation that ends               *)
(*            validate_answers, on the tallies its loop can produce.       *)
(*                                                                         *)
(* Text is a tuple of one-character strings, so that the string            *)
(* operations of the code (rsplit, lower, secure_filename) are computed.   *)
(***************************************************************************)
EXTENDS Integers, Sequences, FiniteSets, TLC

VARIABLES
    processor,  \* module-level OMRProcessor instance, or None
    fs,         \* the upload folder: staged file name -> what is stored there
    request,    \* per request: the HTTP request it serves
    pc,         \* per request: the position of its handler
    idx,        \* per request: position of the batch loop in files
    filepath,   \* per request: local `filename`/`filepath` of the staged file
    result,     \* per request: local `result`, what the recognizer returned
    results,    \* per request: local `results` of batch_process
    response,   \* per request: the HTTP response returned
    calls,      \* history: recognizer invocations, per submission of the request
    staged,     \* history: the submissions of the request that staged a file
    vrequest,   \* /api/validate: the request body
    vresponse,  \* /api/validate: the response, but for its comparison rows
    comparison, \* /api/validate: the comparison rows of the response
    tally       \* the counters `correct` and `total` after the scoring loop

vars == <<processor, fs, request, pc, idx, filepath, result, results, response,
          calls, staged, vrequest, vresponse, comparison, tally>>

apiVars == <<processor, fs, request, pc, idx, filepath, result, results,
             response, calls, staged>>

scoreVars == <<vrequest, vresponse, comparison, tally>>

-----------------------------------------------------------------------------
(* Bounds of the model. *)

\* longest files[] list of one batch request
MaxBatch == 2

\* submissions carried by all requests together
MaxLoad == 3

\* longest answer key of a scoring request
MaxKey == 2

\* largest number of questions tallied by the scoring loop
MaxTotal == 2003

\* the concurrent requests
Requests == {"r1", "r2"}

-----------------------------------------------------------------------------
(* Text helpers. *)

None == "None"

UpperCase == <<"A","B","C","D","E","F","G","H","I","J","K","L","M",
               "N","O","P","Q","R","S","T","U","V","W","X","Y","Z">>

LowerCase == <<"a","b","c","d","e","f","g","h","i","j","k","l","m",
               "n","o","p","q","r","s","t","u","v","w","x","y","z">>

Digits == <<"0","1","2","3","4","5","6","7","8","9">>

Range(s) == {s[i] : i \in 1..Len(s)}

\* str.lower()
lower(s) ==
    [i \in 1..Len(s) |->
        IF s[i] \in Range(UpperCase)
        THEN LowerCase[CHOOSE k \in 1..Len(UpperCase) : UpperCase[k] = s[i]]
        ELSE s[i]]

\* filename.rsplit('.', 1)[1], for a filename that holds a dot
rsplit(s) ==
    LET last == CHOOSE i \in 1..Len(s) :
                    s[i] = "." /\ \A j \in (i+1)..Len(s) : s[j] # "."
    IN SubSeq(s, last + 1, Len(s))

ALLOWED_EXTENSIONS ==
    { <<"p","n","g">>, <<"j","p","g">>, <<"j","p","e","g">>,
      <<"b","m","p">>, <<"t","i","f","f">> }

\* the check without .lower()
allowed_file_as_typed(filename) ==
    /\ "." \in Range(filename)
    /\ rsplit(filename) \in ALLOWED_EXTENSIONS

allowed_file(filename) ==
    /\ "." \in Range(filename)
    /\ lower(rsplit(filename)) \in ALLOWED_EXTENSIONS

RECURSIVE SplitJoin(_, _, _)
\* "_".join(s.split()): runs of blanks become one "_", none at either end
SplitJoin(s, acc, gap) ==
    IF s = <<>> THEN acc
    ELSE IF Head(s) = " " THEN SplitJoin(Tail(s), acc, acc # <<>>)
    ELSE SplitJoin(Tail(s),
                   IF gap THEN acc \o <<"_", Head(s)>> ELSE Append(acc, Head(s)),
                   FALSE)

RECURSIVE Strip(_)
\* s.strip("._")
Strip(s) ==
    IF s = <<>> THEN s
    ELSE IF Head(s) \in {".", "_"} THEN Strip(Tail(s))
    ELSE IF s[Len(s)] \in {".", "_"} THEN Strip(SubSeq(s, 1, Len(s) - 1))
    ELSE s

SafeChar(c) ==
    c \in Range(UpperCase) \cup Range(LowerCase) \cup Range(Digits) \cup {"_", ".", "-"}

\* werkzeug.utils.secure_filename as the handlers use it: path separators
\* become blanks, blank-separated parts are joined by "_", characters outside
\* [A-Za-z0-9_.-] are dropped, dots and underscores are stripped at both ends
secure_filename(filename) ==
    LET noSep == [i \in 1..Len(filename) |->
                     IF filename[i] = "/" THEN " " ELSE filename[i]]
    IN Strip(SelectSeq(SplitJoin(noSep, <<>>, FALSE), SafeChar))

\* the staging name of the base64 path
TempImage == <<"t","e","m","p","_","i","m","a","g","e",".","j","p","g">>

-----------------------------------------------------------------------------
(* Inputs. *)

\* what a file holds: a readable answer sheet, or bytes the recognizer
\* cannot process
Sheet == "sheet"
Junk == "junk"

Sub(name, data) == [filename |-> name, data |-> data]

\* the uploads a request may carry
Submissions ==
    { Sub(<<>>, Sheet),
      Sub(<<"a",".","g","i","f">>, Sheet),
      Sub(<<"a",".","p","n","g">>, Sheet),
      Sub(<<".",".","/","a",".","p","n","g">>, Sheet),
      Sub(<<"b",".","J","P","G">>, Junk) }

\* the base64 payloads of the JSON path: one that does not decode, and two
\* that decode to an image
Base64Images == {"invalid", Sheet, Junk}

\* request.files.getlist('files[]') of a request that holds the field: one
\* upload at least
FileLists == UNION {[1..n -> Submissions] : n \in 1..MaxBatch}

NoRequest == [endpoint |-> "none", body |-> "none", files |-> <<>>, image |-> None]

ProcessRequests ==
    {[endpoint |-> "process", body |-> "file", files |-> <<s>>, image |-> None] :
        s \in Submissions}
    \cup {[endpoint |-> "process", body |-> "json", files |-> <<>>, image |-> b] :
            b \in Base64Images}
    \cup {[endpoint |-> "process", body |-> "none", files |-> <<>>, image |-> None]}

BatchRequests ==
    {[endpoint |-> "batch", body |-> "file", files |-> f, image |-> None] :
        f \in FileLists}
    \cup {[endpoint |-> "batch", body |-> "none", files |-> <<>>, image |-> None]}

\* submissions a request carries
LoadOf(q) == IF q.body = "json" THEN 1 ELSE Len(q.files)

RECURSIVE SumLoad(_, _)
SumLoad(rs, req) ==
    IF rs = {} THEN 0
    ELSE LET r == CHOOSE x \in rs : TRUE
         IN LoadOf(req[r]) + SumLoad(rs \ {r}, req)

Admit(r, q) == SumLoad(Requests \ {r}, request) + LoadOf(q) <= MaxLoad

-----------------------------------------------------------------------------
(* The upload folder. *)

StagingNames ==
    {secure_filename(s.filename) : s \in {t \in Submissions : allowed_file(t.filename)}}
    \cup {TempImage}

NoFile == [by |-> "nobody", item |-> 0, data |-> "absent"]

Stored(r, i, d) == [by |-> r, item |-> i, data |-> d]

\* os.path.exists(filepath)
exists(p) == fs[p] # NoFile

-----------------------------------------------------------------------------
(* The recognizer, OMRProcessor.process_omr: a readable sheet gives a       *)
(* payload of answers; anything else fails, by an error payload or by an   *)
(* exception.                                                              *)

Answers == "answers"
ErrorPayload == "error"
Raised == "raised"

RecognizerOutcomes(file) ==
    IF file.data = Sheet THEN {Answers} ELSE {ErrorPayload, Raised}

-----------------------------------------------------------------------------
(* Responses. *)

NoResponse == [code |-> 0, body |-> "none"]

Reply(code, body) == [code |-> code, body |-> body]

Entry(name, status, detail, i) ==
    [filename |-> name, status |-> status, detail |-> detail, item |-> i]

CountStatus(rs, status) == Cardinality({i \in 1..Len(rs) : rs[i].status = status})

\* lines 235-240
BatchReport(files, rs) ==
    [code |-> 200, body |-> "report",
     total |-> Len(files),
     processed |-> CountStatus(rs, "success"),
     failed |-> CountStatus(rs, "error"),
     results |-> rs]

Bump(c, i) == [c EXCEPT ![i] = @ + 1]

-----------------------------------------------------------------------------
(* Startup, lines 46-57: the processor is loaded once, or is None. *)

Loaded == "OMRProcessor"

InitApi ==
    /\ processor \in {Loaded, None}
    /\ fs = [p \in StagingNames |-> NoFile]
    /\ request = [r \in Requests |-> NoRequest]
    /\ pc = [r \in Requests |-> "idle"]
    /\ idx = [r \in Requests |-> 0]
    /\ filepath = [r \in Requests |-> <<>>]
    /\ result = [r \in Requests |-> None]
    /\ results = [r \in Requests |-> <<>>]
    /\ response = [r \in Requests |-> NoResponse]
    /\ calls = [r \in Requests |-> <<>>]
    /\ staged = [r \in Requests |-> {}]

NoTally == [correct |-> 0, total |-> 0]

NoValidateRequest == [is_json |-> FALSE, fields |-> {}, detected |-> <<>>, answer_key |-> <<>>]

InitScoreIdle ==
    /\ vrequest = NoValidateRequest
    /\ vresponse = NoResponse
    /\ comparison = <<>>
    /\ tally = NoTally

Init == InitApi /\ InitScoreIdle

-----------------------------------------------------------------------------
(* Steps shared by the handlers. *)

\* the handler returns
Return(r, resp) ==
    /\ response' = [response EXCEPT ![r] = resp]
    /\ pc' = [pc EXCEPT ![r] = "done"]

Goto(r, label) == pc' = [pc EXCEPT ![r] = label]

\* file.save(filepath) and cv2.imwrite(filepath, image): the file of that name
\* now holds this submission, whatever it held
Save(r, i, name, data) ==
    /\ filepath' = [filepath EXCEPT ![r] = name]
    /\ fs' = [fs EXCEPT ![name] = Stored(r, i, data)]
    /\ staged' = [staged EXCEPT ![r] = @ \cup {i}]

\* os.remove(filepath) of a file that is there
Remove(r) == fs' = [fs EXCEPT ![filepath[r]] = NoFile]

\* decode_base64_image, lines 62-73: None when the payload does not decode
decode_base64_image(b) == IF b = "invalid" THEN None ELSE b

\* a request arrives
Accept(r, q) ==
    /\ pc[r] = "idle"
    /\ Admit(r, q)
    /\ request' = [request EXCEPT ![r] = q]
    /\ calls' = [calls EXCEPT ![r] = [i \in 1..LoadOf(q) |-> 0]]

-----------------------------------------------------------------------------
(* process_omr, /api/process. *)

\* lines 158-168, after the cleanup
ProcessReply(res) ==
    IF res = ErrorPayload THEN Reply(500, "recognition error")
    ELSE Reply(200, "success")

\* lines 105-148: the availability check, the admission checks, the staging
process_omr_Stage(r) ==
    \E q \in ProcessRequests :
        /\ Accept(r, q)
        /\ IF processor = None
           THEN /\ Return(r, Reply(503, "Model not loaded"))
                /\ UNCHANGED <<fs, filepath, staged>>
           ELSE IF q.body = "file"
           THEN LET file == q.files[1]
                IN IF file.filename = <<>>
                   THEN /\ Return(r, Reply(400, "No file selected"))
                        /\ UNCHANGED <<fs, filepath, staged>>
                   ELSE IF ~allowed_file(file.filename)
                   THEN /\ Return(r, Reply(400, "Invalid file type"))
                        /\ UNCHANGED <<fs, filepath, staged>>
                   ELSE /\ Save(r, 1, secure_filename(file.filename), file.data)
                        /\ Goto(r, "recognize")
                        /\ UNCHANGED response
           ELSE IF q.body = "json"
           THEN IF decode_base64_image(q.image) = None
                THEN /\ Return(r, Reply(400, "Invalid base64 image"))
                     /\ UNCHANGED <<fs, filepath, staged>>
                ELSE /\ Save(r, 1, TempImage, decode_base64_image(q.image))
                     /\ Goto(r, "recognize")
                     /\ UNCHANGED response
           ELSE /\ Return(r, Reply(400, "No image provided"))
                /\ UNCHANGED <<fs, filepath, staged>>
        /\ UNCHANGED <<processor, idx, result, results>>
        /\ UNCHANGED scoreVars

\* line 152: processor.process_omr(filepath)
process_omr_Recognize(r) ==
    /\ request[r].endpoint = "process"
    /\ pc[r] = "recognize"
    /\ \E out \in RecognizerOutcomes(fs[filepath[r]]) :
        IF out = Raised
        THEN Goto(r, "except_exists") /\ UNCHANGED result
        ELSE Goto(r, "exists") /\ result' = [result EXCEPT ![r] = out]
    /\ calls' = [calls EXCEPT ![r] = Bump(@, 1)]
    /\ UNCHANGED <<processor, fs, request, idx, filepath, results, response, staged>>
    /\ UNCHANGED scoreVars

\* line 155: os.path.exists(filepath); when false, lines 158-168
process_omr_Exists(r) ==
    /\ request[r].endpoint = "process"
    /\ pc[r] = "exists"
    /\ IF exists(filepath[r])
       THEN Goto(r, "remove") /\ UNCHANGED response
       ELSE Return(r, ProcessReply(result[r]))
    /\ UNCHANGED <<processor, fs, request, idx, filepath, result, results, calls, staged>>
    /\ UNCHANGED scoreVars

\* line 156: os.remove(filepath), then lines 158-168; it raises when the file
\* is gone, which the handler at line 170 catches
process_omr_Remove(r) ==
    /\ request[r].endpoint = "process"
    /\ pc[r] = "remove"
    /\ IF exists(filepath[r])
       THEN Remove(r) /\ Return(r, ProcessReply(result[r]))
       ELSE Goto(r, "except_exists") /\ UNCHANGED <<fs, response>>
    /\ UNCHANGED <<processor, request, idx, filepath, result, results, calls, staged>>
    /\ UNCHANGED scoreVars

\* line 172: os.path.exists(filepath); when false, lines 175-178
process_omr_ExceptExists(r) ==
    /\ request[r].endpoint = "process"
    /\ pc[r] = "except_exists"
    /\ IF exists(filepath[r])
       THEN Goto(r, "except_remove") /\ UNCHANGED response
       ELSE Return(r, Reply(500, "failed"))
    /\ UNCHANGED <<processor, fs, request, idx, filepath, result, results, calls, staged>>
    /\ UNCHANGED scoreVars

\* line 173: os.remove(filepath), then lines 175-178; when it raises inside
\* the except block the exception leaves the view and Flask answers by
\* internal_error, lines 364-369
process_omr_ExceptRemove(r) ==
    /\ request[r].endpoint = "process"
    /\ pc[r] = "except_remove"
    /\ IF exists(filepath[r])
       THEN Remove(r) /\ Return(r, Reply(500, "failed"))
       ELSE Return(r, Reply(500, "Internal server error")) /\ UNCHANGED fs
    /\ UNCHANGED <<processor, request, idx, filepath, result, results, calls, staged>>
    /\ UNCHANGED scoreVars

-----------------------------------------------------------------------------
(* batch_process, /api/batch. *)

\* lines 193-201
batch_process_Start(r) ==
    \E q \in BatchRequests :
        /\ Accept(r, q)
        /\ IF q.body = "none"
           THEN Return(r, Reply(400, "No files provided")) /\ UNCHANGED idx
           ELSE Goto(r, "loop") /\ idx' = [idx EXCEPT ![r] = 1] /\ UNCHANGED response
        /\ UNCHANGED <<processor, fs, filepath, result, results, staged>>
        /\ UNCHANGED scoreVars

\* the loop moves to the next file
Continue(r) ==
    /\ idx' = [idx EXCEPT ![r] = @ + 1]
    /\ Goto(r, "loop")

\* results.append(...)
AppendResult(r, e) == results' = [results EXCEPT ![r] = Append(@, e)]

\* lines 203-216: the admission check of the next file, and its staging
batch_process_Stage(r) ==
    /\ request[r].endpoint = "batch"
    /\ pc[r] = "loop"
    /\ idx[r] <= Len(request[r].files)
    /\ LET file == request[r].files[idx[r]]
       IN IF file.filename = <<>> \/ ~allowed_file(file.filename)
          THEN /\ AppendResult(r, Entry(file.filename, "error", "Invalid file", idx[r]))
               /\ Continue(r)
               /\ UNCHANGED <<fs, filepath, staged>>
          ELSE /\ Save(r, idx[r], secure_filename(file.filename), file.data)
               /\ Goto(r, "recognize")
               /\ UNCHANGED <<idx, results>>
    /\ UNCHANGED <<processor, request, result, response, calls>>
    /\ UNCHANGED scoreVars

\* lines 218-222, and lines 228-233 when the call raises: with no processor
\* the attribute lookup on None raises before any recognizer is called
batch_process_Recognize(r) ==
    /\ request[r].endpoint = "batch"
    /\ pc[r] = "recognize"
    /\ LET file == request[r].files[idx[r]]
           failure == Entry(file.filename, "error", "exception", idx[r])
       IN IF processor = None
          THEN /\ AppendResult(r, failure)
               /\ Continue(r)
               /\ UNCHANGED <<result, calls>>
          ELSE /\ calls' = [calls EXCEPT ![r] = Bump(@, idx[r])]
               /\ \E out \in RecognizerOutcomes(fs[filepath[r]]) :
                    IF out = Raised
                    THEN /\ AppendResult(r, failure)
                         /\ Continue(r)
                         /\ UNCHANGED result
                    ELSE /\ result' = [result EXCEPT ![r] = out]
                         /\ AppendResult(r, Entry(filepath[r], "success", out, idx[r]))
                         /\ Goto(r, "exists")
                         /\ UNCHANGED idx
    /\ UNCHANGED <<processor, fs, request, filepath, response, staged>>
    /\ UNCHANGED scoreVars

\* line 225: os.path.exists(filepath)
batch_process_Exists(r) ==
    /\ request[r].endpoint = "batch"
    /\ pc[r] = "exists"
    /\ IF exists(filepath[r])
       THEN Goto(r, "remove") /\ UNCHANGED idx
       ELSE Continue(r)
    /\ UNCHANGED <<processor, fs, request, filepath, result, results, response,
                   calls, staged>>
    /\ UNCHANGED scoreVars

\* line 226: os.remove(filepath); when the file is gone it raises, and the
\* handler at lines 228-233 appends an entry for the same file
batch_process_Remove(r) ==
    /\ request[r].endpoint = "batch"
    /\ pc[r] = "remove"
    /\ IF exists(filepath[r])
       THEN Remove(r) /\ UNCHANGED results
       ELSE /\ AppendResult(r, Entry(request[r].files[idx[r]].filename, "error",
                                     "exception", idx[r]))
            /\ UNCHANGED fs
    /\ Continue(r)
    /\ UNCHANGED <<processor, request, filepath, result, response, calls, staged>>
    /\ UNCHANGED scoreVars

\* lines 235-240, after the last file
batch_process_Return(r) ==
    /\ request[r].endpoint = "batch"
    /\ pc[r] = "loop"
    /\ idx[r] > Len(request[r].files)
    /\ Return(r, BatchReport(request[r].files, results[r]))
    /\ UNCHANGED <<processor, fs, request, idx, filepath, result, results, calls, staged>>
    /\ UNCHANGED scoreVars

-----------------------------------------------------------------------------

Next ==
    \E r \in Requests :
        \/ process_omr_Stage(r)
        \/ process_omr_Recognize(r)
        \/ process_omr_Exists(r)
        \/ process_omr_Remove(r)
        \/ process_omr_ExceptExists(r)
        \/ process_omr_ExceptRemove(r)
        \/ batch_process_Start(r)
        \/ batch_process_Stage(r)
        \/ batch_process_Recognize(r)
        \/ batch_process_Exists(r)
        \/ batch_process_Remove(r)
        \/ batch_process_Return(r)

Spec == Init /\ [][Next]_vars

-----------------------------------------------------------------------------
(* validate_answers, /api/validate.                                        *)
(*                                                                         *)
(* A JSON object is a Python dict: the answer key is the sequence of its   *)
(* (question, answer) pairs in insertion order, the detected map a         *)
(* function on the questions it holds. An answer is an option or JSON      *)
(* null, which Python reads as None.                                       *)

Questions == {"1", "2", "3"}

Options == {"A", "B"}

AnswerValues == Options \cup {None}

Pair(q, v) == [q |-> q, v |-> v]

DistinctQuestions(k) == \A i, j \in 1..Len(k) : k[i].q = k[j].q => i = j

AnswerKeys ==
    {k \in UNION {[1..n -> {Pair(q, v) : q \in Questions, v \in AnswerValues}] :
                    n \in 0..MaxKey} : DistinctQuestions(k)}

DetectedMaps == UNION {[D -> AnswerValues] : D \in SUBSET Questions}

ValidateRequests ==
    {[is_json |-> TRUE, fields |-> {"detected_answers", "answer_key"},
      detected |-> d, answer_key |-> k] : d \in DetectedMaps, k \in AnswerKeys}
    \cup {[is_json |-> j, fields |-> f, detected |-> <<>>, answer_key |-> <<>>] :
            j \in BOOLEAN, f \in SUBSET {"detected_answers", "answer_key"}}

\* dict.get(key): None when the key is absent
get(d, q) == IF q \in DOMAIN d THEN d[q] ELSE None

\* the row when the lookup never finds the question
Row_lookup_misses(detected, entry) ==
    [question |-> entry.q, detected |-> None, correct |-> entry.v,
     is_correct |-> (None = entry.v)]

\* lines 275-287: the row of one question of the answer key
Row(detected, entry) ==
    LET detected_ans == get(detected, entry.q)
        correct_ans == entry.v
    IN [question |-> entry.q, detected |-> detected_ans, correct |-> correct_ans,
        is_correct |-> (detected_ans = correct_ans)]

RECURSIVE Compare(_, _, _)
\* lines 270-289: the loop over the answer key
Compare(detected, answer_key, acc) ==
    IF answer_key = <<>> THEN acc
    ELSE LET row == Row(detected, Head(answer_key))
         IN Compare(detected, Tail(answer_key),
                    [comparison |-> Append(acc.comparison, row),
                     correct |-> acc.correct + (IF row.is_correct THEN 1 ELSE 0),
                     total |-> acc.total + 1])

\* A percentage is a fraction num/den, so that the comparisons with the
\* thresholds and the rounding are exact.
Frac(n, d) == [num |-> n, den |-> d]

\* the ratio without the factor 100
score_ratio(correct, total) ==
    IF total > 0 THEN Frac(correct, total) ELSE Frac(0, 1)

\* line 291
score_percentage(correct, total) ==
    IF total > 0 THEN Frac(correct * 100, total) ELSE Frac(0, 1)

\* round(x, 2), in hundredths: the nearest hundredth; when x lies midway
\* between two, the one the float nearest to x is closer to, which is either
round2(x) ==
    LET n == (x.num * 100) \div x.den
        r == (x.num * 100) % x.den
    IN IF 2 * r > x.den THEN {n + 1}
       ELSE IF 2 * r < x.den THEN {n}
       ELSE {n, n + 1}

\* lines 302-315
get_grade(percentage) ==
    IF percentage.num >= 90 * percentage.den THEN "A+"
    ELSE IF percentage.num >= 80 * percentage.den THEN "A"
    ELSE IF percentage.num >= 70 * percentage.den THEN "B"
    ELSE IF percentage.num >= 60 * percentage.den THEN "C"
    ELSE IF percentage.num >= 50 * percentage.den THEN "D"
    ELSE "F"

\* lines 293-299, but for the comparison rows
ScoreReports(correct, total) ==
    {[code |-> 200, body |-> "score", score |-> correct, total |-> total,
      percentage |-> Frac(h, 100),
      grade |-> get_grade(score_percentage(correct, total))] :
        h \in round2(score_percentage(correct, total))}

\* lines 255-299
validate_answers ==
    /\ vresponse = NoResponse
    /\ IF ~vrequest.is_json
       THEN /\ vresponse' = Reply(400, "Request must be JSON")
            /\ UNCHANGED <<comparison, tally>>
       ELSE IF vrequest.fields # {"detected_answers", "answer_key"}
       THEN /\ vresponse' = Reply(400, "Missing required fields")
            /\ UNCHANGED <<comparison, tally>>
       ELSE LET out == Compare(vrequest.detected, vrequest.answer_key,
                               [comparison |-> <<>>, correct |-> 0, total |-> 0])
            IN /\ tally' = [correct |-> out.correct, total |-> out.total]
               /\ comparison' = out.comparison
               /\ vresponse' \in ScoreReports(out.correct, out.total)
    /\ UNCHANGED vrequest
    /\ UNCHANGED apiVars

InitApiIdle ==
    /\ processor = None
    /\ fs = [p \in StagingNames |-> NoFile]
    /\ request = [r \in Requests |-> NoRequest]
    /\ pc = [r \in Requests |-> "idle"]
    /\ idx = [r \in Requests |-> 0]
    /\ filepath = [r \in Requests |-> <<>>]
    /\ result = [r \in Requests |-> None]
    /\ results = [r \in Requests |-> <<>>]
    /\ response = [r \in Requests |-> NoResponse]
    /\ calls = [r \in Requests |-> <<>>]
    /\ staged = [r \in Requests |-> {}]

InitScore ==
    /\ InitApiIdle
    /\ vrequest \in ValidateRequests
    /\ vresponse = NoResponse
    /\ comparison = <<>>
    /\ tally = NoTally

NextScore == validate_answers

SpecScore == InitScore /\ [][NextScore]_vars

-----------------------------------------------------------------------------
(* The end of validate_answers on the counters alone: the loop of lines    *)
(* 274-289 leaves 0 <= correct <= total, total the size of the answer key. *)

\* lines 291-299 on the counters of the loop
grade_report ==
    /\ vresponse = NoResponse
    /\ vresponse' \in ScoreReports(tally.correct, tally.total)
    /\ UNCHANGED <<vrequest, comparison, tally>>
    /\ UNCHANGED apiVars

InitGrade ==
    /\ InitApiIdle
    /\ vrequest = NoValidateRequest
    /\ vresponse = NoResponse
    /\ comparison = <<>>
    /\ \E total \in 0..MaxTotal : \E correct \in 0..total :
            tally = [correct |-> correct, total |-> total]

NextGrade == grade_report

SpecGrade == InitGrade /\ [][NextGrade]_vars

-----------------------------------------------------------------------------
(* Properties of the recognition endpoints, checked under Spec. *)

\* request r was served by batch_process and got its report
Reported(r) ==
    /\ request[r].endpoint = "batch"
    /\ pc[r] = "done"
    /\ response[r].body = "report"

\* request r has returned from process_omr or batch_process
Returned(r) == pc[r] = "done"

\* a name is admissible by its words: not empty, and ending in a dot and one
\* of the five suffixes, in any case
EndsWith(s, t) == Len(t) <= Len(s) /\ SubSeq(s, Len(s) - Len(t) + 1, Len(s)) = t

Admissible(name) ==
    /\ name # <<>>
    /\ \E ext \in { <<"p","n","g">>, <<"j","p","g">>, <<"j","p","e","g">>,
                    <<"b","m","p">>, <<"t","i","f","f">> } :
            EndsWith(lower(name), <<".">> \o ext)

EntriesOf(rs, i) == {j \in 1..Len(rs) : rs[j].item = i}

\* C1: the report of a batch of N >= 1 submissions has exactly N results,
\* the i-th one that of the i-th submission, and
\* processed + failed = total = N = length(results).
BatchReportCounts ==
    \A r \in Requests :
        Reported(r) =>
            LET N == Len(request[r].files)
                rep == response[r]
            IN /\ N >= 1
               /\ Len(rep.results) = N
               /\ \A i \in 1..N : rep.results[i].item = i
               /\ rep.processed + rep.failed = rep.total
               /\ rep.total = N

\* C2: in a batch whose item k is corrupt and whose other items are valid,
\* the one entry with status error is at position k and every other entry
\* has status success.
FaultIsolation ==
    \A r \in Requests :
        (Reported(r) /\ processor = Loaded) =>
            \A k \in 1..Len(request[r].files) :
                LET files == request[r].files
                    rs == response[r].results
                IN (/\ Admissible(files[k].filename) /\ files[k].data = Junk
                    /\ \A j \in 1..Len(files) :
                          j # k => Admissible(files[j].filename) /\ files[j].data = Sheet)
                   => /\ {i \in 1..Len(rs) : rs[i].status = "error"} = {k}
                      /\ \A i \in 1..Len(rs) : i # k => rs[i].status = "success"

\* C3: once process_omr or batch_process has returned, no file it staged
\* is left in the upload folder, whether the recognizer returned answers,
\* returned an error or raised.
NoStagedFileLeft ==
    processor = Loaded =>
        \A r \in Requests :
            Returned(r) => \A p \in StagingNames : fs[p].by # r

\* C4: with no processor, process_omr, and batch_process on a request that
\* holds files, alike answer by the "model not loaded" condition, having
\* staged no file and attempted no recognition.
UnavailableAnswer ==
    processor = None =>
        \A r \in Requests :
            (Returned(r) /\ (request[r].endpoint = "process" \/ request[r].body = "file")) =>
                /\ response[r].code = 503
                /\ response[r].body = "Model not loaded"
                /\ staged[r] = {}
                /\ \A i \in 1..Len(calls[r]) : calls[r][i] = 0

\* C5: from the staging of a file to the end of its recognition, the file
\* of that name is the one this request staged: no other request has
\* overwritten or deleted it, and the recognition of no other request reads it.
ExclusiveStaging ==
    \A r \in Requests :
        pc[r] = "recognize" =>
            /\ fs[filepath[r]].by = r
            /\ fs[filepath[r]].item = (IF request[r].endpoint = "batch" THEN idx[r] ELSE 1)

\* C10: a batch never invokes the recognizer twice for a submission and
\* never for an inadmissible one; with the recognizer loaded it has invoked
\* it exactly once for each admissible submission it has dealt with; an
\* inadmissible submission stages no file and gets one entry, an error
\* carrying its declared name; and the loop goes on to the end of the list.
RecognizedOncePerAdmissible ==
    \A r \in Requests :
        (request[r].endpoint = "batch" /\ request[r].body = "file") =>
            LET files == request[r].files
                dealt(i) == i < idx[r] \/ (i = idx[r] /\ pc[r] = "exists")
                                       \/ (i = idx[r] /\ pc[r] = "remove")
            IN /\ \A i \in 1..Len(files) :
                    /\ calls[r][i] <= 1
                    /\ (dealt(i) /\ Admissible(files[i].filename) /\ processor = Loaded)
                          => calls[r][i] = 1
                    /\ ~Admissible(files[i].filename) =>
                          /\ calls[r][i] = 0
                          /\ i \notin staged[r]
                          /\ dealt(i) =>
                               /\ Cardinality(EntriesOf(results[r], i)) = 1
                               /\ \A j \in EntriesOf(results[r], i) :
                                     /\ results[r][j].status = "error"
                                     /\ results[r][j].filename = files[i].filename
               /\ Reported(r) => idx[r] = Len(files) + 1

\* a batch with an inadmissible submission first and an admissible one after
\* it, whose recognition failed by an exception and was not tried again
RecognizedOncePerAdmissibleWitness ==
    \E r \in Requests :
        /\ Reported(r)
        /\ processor = Loaded
        /\ Len(request[r].files) = 2
        /\ ~Admissible(request[r].files[1].filename)
        /\ Admissible(request[r].files[2].filename)
        /\ calls[r] = <<0, 1>>
        /\ response[r].results[1].filename = request[r].files[1].filename
        /\ response[r].results[2].detail = "exception"

-----------------------------------------------------------------------------
(* Properties of the scoring endpoint, checked under SpecScore and          *)
(* SpecGrade.                                                              *)

Scored == vresponse.code = 200

\* the detected answer of a question: the value the map holds for it, the
\* "no answer" value None when it holds none
Detected(q) ==
    IF q \in DOMAIN vrequest.detected THEN vrequest.detected[q] ELSE None

CorrectRows == {i \in 1..Len(comparison) : comparison[i].is_correct}

\* C6: the comparison has one row per question of the answer key, in the
\* key's order (so none for a question of the detected map alone);
\* is_correct is true exactly when the detected answer equals the key's;
\* total is the size of the key, score the number of correct rows,
\* 0 <= score <= total.
ScoreReportRows ==
    Scored =>
        LET key == vrequest.answer_key
        IN /\ Len(comparison) = Len(key)
           /\ \A i \in 1..Len(key) :
                /\ comparison[i].question = key[i].q
                /\ comparison[i].correct = key[i].v
                /\ comparison[i].detected = Detected(key[i].q)
                /\ comparison[i].is_correct = (Detected(key[i].q) = key[i].v)
           /\ vresponse.total = Len(key)
           /\ vresponse.score = Cardinality(CorrectRows)
           /\ 0 <= vresponse.score
           /\ vresponse.score <= vresponse.total

\* a key of two questions, not in the order of their labels, one detected
\* right and one wrong, and a detected question the key does not hold
ScoreReportRowsWitness ==
    /\ Scored
    /\ Len(vrequest.answer_key) = 2
    /\ vrequest.answer_key[1].q = "2"
    /\ vrequest.answer_key[2].q = "1"
    /\ "3" \in DOMAIN vrequest.detected
    /\ comparison[1].is_correct
    /\ ~comparison[2].is_correct
    /\ vresponse.score = 1

\* C7: a question of the answer key that the detected map does not hold
\* has a row with the "no answer" value, is_correct false, and is not
\* counted in the score, whatever answer the key holds for it.
MissingDetectionIncorrect ==
    Scored =>
        LET key == vrequest.answer_key
            answered == {i \in 1..Len(key) : key[i].q \in DOMAIN vrequest.detected}
        IN /\ \A i \in 1..Len(key) :
                i \notin answered =>
                    /\ comparison[i].detected = None
                    /\ ~comparison[i].is_correct
           /\ vresponse.score <= Cardinality(answered)

\* the grade the thresholds give a percentage written in hundredths
ThresholdGrade(h) ==
    IF h >= 9000 THEN "A+"
    ELSE IF h >= 8000 THEN "A"
    ELSE IF h >= 7000 THEN "B"
    ELSE IF h >= 6000 THEN "C"
    ELSE IF h >= 5000 THEN "D"
    ELSE "F"

\* |a|
Abs(a) == IF a < 0 THEN -a ELSE a

\* C8: the reported percentage is correct/total*100 rounded to two
\* decimals, 0 when total is 0, and the reported grade is the one the
\* thresholds give to the reported percentage.
GradeOfReportedPercentage ==
    Scored =>
        LET h == vresponse.percentage.num
        IN /\ vresponse.percentage.den = 100
           /\ vresponse.total = 0 => h = 0
           /\ vresponse.total > 0 =>
                2 * Abs(h * vresponse.total - vresponse.score * 10000) <= vresponse.total
           /\ vresponse.grade = ThresholdGrade(h)

\* the detected map that holds the answers of the key
KeyAsMap(key) ==
    [q \in {key[i].q : i \in 1..Len(key)} |->
        (CHOOSE e \in Range(key) : e.q = q).v]

RoundTrip ==
    /\ Scored
    /\ vrequest.answer_key # <<>>
    /\ vrequest.detected = KeyAsMap(vrequest.answer_key)

\* C9: scoring a non-empty answer key against itself gives score = total,
\* percentage 100.00 and grade A+.
ScoreRoundTrip ==
    RoundTrip =>
        /\ vresponse.score = vresponse.total
        /\ vresponse.percentage = Frac(10000, 100)
        /\ vresponse.grade = "A+"

\* a key of two questions scored against itself
ScoreRoundTripWitness ==
    /\ RoundTrip
    /\ Len(vrequest.answer_key) = 2
    /\ vresponse.score = 2

====
